---------------------------- MODULE Spec2Model ----------------------------
(***************************************************************************)
(* Model of the signer-proxy request pipeline: the per-key signer cache    *)
(* behind one tokio Mutex (get_signer), the JSON-RPC dispatcher            *)
(* (handle_request, handle_eth_sign_jsonrpc, handle_eth_sign_transaction,  *)
(* handle_health_status), the error rendering (AppError::into_response),   *)
(* the ping route of the AWS KMS server and the add_mock_wallets helper.   *)
(*                                                                         *)
(* Three servers exist in the sources and share the pipeline:              *)
(*   "main"     src/main.rs             (YubiHSM, eth_signTransaction only)*)
(*   "yubihsm"  src/signers/yubihsm.rs  (YubiHSM, common dispatcher)       *)
(*   "aws_kms"  src/signers/aws_kms.rs  (AWS KMS, common dispatcher)       *)
(* A behaviour fixes one of them in Init.                                  *)
(*                                                                         *)
(* One task per inbound POST /key/:key_id request.  A step of a task is    *)
(* the stretch of code between two points where the task can be suspended: *)
(* lock().await, the backend resolve, and build(&signer).await.            *)
(***************************************************************************)
EXTENDS Integers, Sequences, FiniteSets, TLC

\* ------------------------------------------------------------- bounds
MaxReq == 2          \* requests (tasks) in one behaviour
MaxKey == 2          \* key identifiers 1..MaxKey

Reqs == 1..MaxReq
Keys == 1..MaxKey
Servers == {"main", "yubihsm", "aws_kms"}

\* A JSON value of params: a transaction object, or a value that does not
\* satisfy the TransactionRequest schema.
Values == {"tx", "junk"}

\* Option<Vec<Value>>: {} is None (the field is absent), {v} is Some(v).
ParamsOpt == {{}} \cup {{<<>>}} \cup {{<<v>>} : v \in Values}

\* The calls a client sends: every params shape for eth_signTransaction,
\* the administrative probe without params, and one foreign method.
Calls ==
    [method : {"eth_signTransaction"}, params : ParamsOpt]
    \cup [method : {"health_status"}, params : {{}}]
    \cup [method : {"eth_chainId"}, params : {{<<>>}}]

VARIABLES
    server,       \* which of the three servers runs
    signers,      \* AppState.signers: HashMap key -> EthereumWallet
    holder,       \* the task holding the Mutex: {} or {r}
    queue,        \* tasks suspended in lock().await, in FIFO order
    backendOk,    \* whether the backend answers the next call successfully
    task,         \* the state of each request's task (see NoTask)
    pong,         \* the answer of GET /ping being sent: <<>> or <<body, lock>>
    address,      \* the answer of GET /key/k/address being sent: <<>> or
                  \* <<the key the handler was called with, response>>
    resolveCalls, \* per key: resolve calls get_signer has issued
    resolveOks,   \* per key: resolve calls that returned Ok
    returned      \* per key: the signers get_signer has returned

vars == <<server, signers, holder, queue, backendOk, task, pong, address,
          resolveCalls, resolveOks, returned>>

\* ------------------------------------------------------------- data
\* JsonRpcRequest { jsonrpc, method, id, params }
JsonRpcRequest(m, i, ps) == [method |-> m, id |-> i, params |-> ps]

NoRequest == JsonRpcRequest("", 0, {})

\* Request r carries call c; a client numbers its requests and uses the
\* number as the JSON-RPC id.
RequestOf(r, c) == JsonRpcRequest(c.method, r, c.params)

\* An EthereumWallet: the key it is bound to and what created it: the
\* request r whose resolve made it, or FromKey for a wallet made from the
\* key material of mock.rs.
FromKey == 0

Signer(k, by) == [key |-> k, by |-> by]

\* An HTTP response: status, and the members of the JSON body that can be
\* present: id, result, error (a JSON-RPC error object), message.
Response(st, i, res, err, msg) ==
    [status |-> st, id |-> i, result |-> res, error |-> err, message |-> msg]

\* AppJson(JsonRpcReply { id, jsonrpc, result: Result(v) }): 200 and
\* {"id":..,"jsonrpc":..,"result":..}
JsonRpcReplyResult(i, v) == Response(200, {i}, {v}, {}, {})

\* AppError::into_response: 500 and the body {"message": ..}
AppErrorResponse(msg) == Response(500, {}, {}, {}, {msg})

\* TimeoutLayer: 408 with an empty body
TimeoutResponse == Response(408, {}, {}, {}, {})

\* serde_json::from_value::<TransactionRequest>(v) succeeds
from_value(v) == v = "tx"

\* hex::encode_prefixed of the signed envelope of transaction tx under the
\* key of signer s
rlp_hex(s, tx) == <<"0x", s.key, tx>>

\* HashMap::insert
InsertNothing(m, k, s) == m

Insert(m, k, s) == (k :> s) @@ m

\* A task: pc is its position (idle, waiting, granted, resolving, signing,
\* done, closed); key is Path(key_id); payload is the JsonRpcRequest, once
\* the task has read it; waited tells whether lock().await suspended it;
\* eth_signer is what get_signer returned ({} or {signer}); resolve is its
\* backend resolve (none, pending, ok, failed, aborted); signs counts its
\* signature requests; reply is its HTTP response ({} or {response}).
NoTask ==
    [pc |-> "idle", key |-> 0, payload |-> NoRequest, waited |-> FALSE,
     eth_signer |-> {}, resolve |-> "none", signs |-> 0, reply |-> {}]

\* ------------------------------------------------------------- lock
\* tokio's Mutex is fair: a release hands the lock to the first waiter.
Granted(q) == IF q = <<>> THEN {} ELSE {Head(q)}

Rest(q) == IF q = <<>> THEN <<>> ELSE Tail(q)

Without(q, r) == SelectSeq(q, LAMBDA x : x # r)

\* task after r became t
Update(r, t) == [task EXCEPT ![r] = t]

\* task after r became t and dropped the MutexGuard
UpdateRelease(r, t) ==
    [x \in Reqs |-> IF x = r THEN t
                    ELSE IF x \in Granted(queue)
                      THEN [task[x] EXCEPT !.pc = "granted"]
                    ELSE task[x]]

\* A response that is ready is written before anything else happens.
NoneDone ==
    pong = <<>> /\ address = <<>> /\ \A q \in Reqs : task[q].pc # "done"

Bump(f, k) == [f EXCEPT ![k] = @ + 1]

\* ------------------------------------------------------------- dispatcher
\* What a task does from the return of get_signer to its next suspension:
\* either it is done with a response, or it has asked the signer for a
\* signature and is suspended in build(&signer).await.
Done(rsp) == [pc |-> "done", reply |-> {rsp}, signs |-> 0]

Signing == [pc |-> "signing", reply |-> {}, signs |-> 1]

\* handle_eth_sign_transaction up to build(&signer).await
EthSignUnvalidated(p, s) ==
    IF p.params \in {{}, {<<>>}}
      THEN Done(AppErrorResponse(<<"params is empty">>))
    ELSE Signing

handle_eth_sign_transaction(p, s) ==
    IF p.params = {} THEN Done(AppErrorResponse(<<"params is empty">>))
    ELSE LET params == CHOOSE ps \in p.params : TRUE
         IN  IF params = <<>>
               THEN Done(AppErrorResponse(<<"params is empty">>))
             ELSE IF ~from_value(params[1])
               THEN Done(AppErrorResponse(<<"schema">>))
             ELSE Signing

\* handle_health_status
HealthStatusMissing(p) ==
    Done(AppErrorResponse(<<"method not supported", p.method>>))

handle_health_status(p) ==
    Done(JsonRpcReplyResult(p.id, <<"CARGO_PKG_VERSION">>))

\* handle_eth_sign_jsonrpc (and the match in handle_request of main.rs,
\* which knows eth_signTransaction only)
DispatchAnyMethod(srv, p, s) == handle_eth_sign_transaction(p, s)

handle_eth_sign_jsonrpc(srv, p, s) ==
    IF p.method = "eth_signTransaction" THEN handle_eth_sign_transaction(p, s)
    ELSE IF p.method = "health_status" /\ srv # "main"
      THEN handle_health_status(p)
    ELSE Done(AppErrorResponse(<<"method not supported", p.method>>))

\* The key_id segment of the path: a key identifier, or nothing (the
\* path is /key/), or text that is no 16-bit unsigned number.  The AWS KMS
\* server takes the segment as a String, so there every segment that is
\* present is a key identifier.
NoSegment == -1

NotU16 == -2

PathSegments(srv) ==
    Keys \cup {NoSegment} \cup (IF srv = "aws_kms" THEN {} ELSE {NotU16})

\* The request never reaches the handler: without a segment no route
\* matches, and Path<u16> rejects a segment it cannot parse.
PathAcceptsAll(srv, seg) == FALSE

PathRejects(srv, seg) ==
    seg = NoSegment \/ (srv # "aws_kms" /\ seg = NotU16)

\* The router's 404 Not Found, and the 400 Bad Request of the Path
\* extractor's rejection (plain text bodies)
PathRejection(seg) ==
    Response(IF seg = NoSegment THEN 404 ELSE 400, {}, {}, {}, {})

\* The AppJson extractor of main.rs rejects a body without params (its
\* JsonRpcRequest.params is no Option); jsonrpc.rs makes the field optional.
ExtractorRejects(srv, p) == srv = "main" /\ p.params = {}

\* The body of request r is call c.  A task reads the body when it
\* dispatches; task[r].payload holds the body from then on, and until then
\* the body is any call that passed the extractor.
Body(r, c) ==
    IF task[r].payload = NoRequest
      THEN ~ExtractorRejects(server, RequestOf(r, c))
    ELSE task[r].payload = RequestOf(r, c)

\* handle_request after get_signer returned Ok(s): dispatch payload p
Dispatched(t, p, s) ==
    LET d == handle_eth_sign_jsonrpc(server, p, s)
    IN  [t EXCEPT !.payload = p, !.eth_signer = {s}, !.pc = d.pc,
                  !.reply = d.reply, !.signs = d.signs]

\* ------------------------------------------------------------- get_signer
\* The cache holds the key, and the first entry of the map is returned.
GetSignerHitFirst(r, t, p) ==
    LET s == signers[CHOOSE k \in DOMAIN signers : TRUE]
    IN  /\ task' = UpdateRelease(r, Dispatched(t, p, s))
        /\ holder' = Granted(queue)
        /\ queue' = Rest(queue)
        /\ returned' = [returned EXCEPT ![t.key] = @ \cup {s}]
        /\ UNCHANGED <<signers, resolveCalls, resolveOks>>

\* The cache holds the key: return the stored signer, drop the guard.
GetSignerHit(r, t, p) ==
    LET s == signers[t.key]
    IN  /\ task' = UpdateRelease(r, Dispatched(t, p, s))
        /\ holder' = Granted(queue)
        /\ queue' = Rest(queue)
        /\ returned' = [returned EXCEPT ![t.key] = @ \cup {s}]
        /\ UNCHANGED <<signers, resolveCalls, resolveOks>>

\* The cache misses: the resolve is issued with the guard held.
GetSignerMissUnlocked(r, t) ==
    /\ task' = UpdateRelease(r, [t EXCEPT !.pc = "resolving",
                                          !.resolve = "pending"])
    /\ holder' = Granted(queue)
    /\ queue' = Rest(queue)
    /\ resolveCalls' = Bump(resolveCalls, t.key)
    /\ UNCHANGED <<signers, resolveOks, returned>>

GetSignerMiss(r, t) ==
    /\ task' = Update(r, [t EXCEPT !.pc = "resolving", !.resolve = "pending"])
    /\ holder' = {r}
    /\ resolveCalls' = Bump(resolveCalls, t.key)
    /\ UNCHANGED <<signers, queue, resolveOks, returned>>

\* handle_request with the method looked at before get_signer is called
GetSignerAfterMethod(r, t, p) ==
    IF p.method \in {"eth_signTransaction", "health_status"}
      THEN IF t.key \in DOMAIN signers THEN GetSignerHit(r, t, p)
           ELSE GetSignerMiss(r, t)
    ELSE /\ task' = UpdateRelease(r, [t EXCEPT
               !.pc = "done", !.payload = p,
               !.reply = {AppErrorResponse(<<"method not supported",
                                             p.method>>)}])
         /\ holder' = Granted(queue)
         /\ queue' = Rest(queue)
         /\ UNCHANGED <<signers, resolveCalls, resolveOks, returned>>

\* get_signer with the lookup made to depend on the backend
GetSignerRevalidate(r, t, p) ==
    IF t.key \in DOMAIN signers /\ backendOk THEN GetSignerHit(r, t, p)
    ELSE GetSignerMiss(r, t)

\* get_signer from the moment task r (in state t) owns the lock
GetSignerLocked(r, t, p) ==
    IF t.key \in DOMAIN signers THEN GetSignerHit(r, t, p)
    ELSE GetSignerMiss(r, t)

\* ------------------------------------------------------------- actions
Init ==
    /\ server \in Servers
    /\ signers = <<>>
    /\ holder = {}
    /\ queue = <<>>
    /\ backendOk \in BOOLEAN
    /\ task = [r \in Reqs |-> NoTask]
    /\ pong = <<>>
    /\ address = <<>>
    /\ resolveCalls = [k \in Keys |-> 0]
    /\ resolveOks = [k \in Keys |-> 0]
    /\ returned = [k \in Keys |-> {}]

\* POST /key/k arrives as request r with body c (requests are numbered in
\* order of arrival): the route is matched and the extractors run (Path
\* first, then AppJson), then handle_request calls get_signer, which asks
\* for the lock.
HandleRequest(r, k, c) ==
    LET p == RequestOf(r, c)
        t == [task[r] EXCEPT !.key = k]
    IN  /\ NoneDone
        /\ task[r].pc = "idle"
        /\ \A q \in Reqs : q < r => task[q].pc # "idle"
        /\ k \in PathSegments(server)
        /\ UNCHANGED <<server, backendOk, pong, address>>
        /\ IF PathRejects(server, k)
             THEN /\ task' = Update(r, [t EXCEPT
                        !.pc = "done", !.reply = {PathRejection(k)}])
                  /\ UNCHANGED <<signers, holder, queue, resolveCalls,
                                 resolveOks, returned>>
           ELSE IF ExtractorRejects(server, p)
             THEN /\ task' = Update(r, [t EXCEPT
                        !.pc = "done", !.payload = p,
                        !.reply = {AppErrorResponse(<<"missing field params">>)}])
                  /\ UNCHANGED <<signers, holder, queue, resolveCalls,
                                 resolveOks, returned>>
           ELSE IF holder # {}
             THEN /\ task' = Update(r, [t EXCEPT !.pc = "waiting",
                                                 !.waited = TRUE])
                  /\ queue' = Append(queue, r)
                  /\ UNCHANGED <<signers, holder, resolveCalls, resolveOks,
                                 returned>>
           ELSE GetSignerLocked(r, t, p)

\* A waiter that was handed the lock runs on.
LockAcquired(r, c) ==
    /\ NoneDone
    /\ task[r].pc = "granted"
    /\ Body(r, c)
    /\ GetSignerLocked(r, task[r], RequestOf(r, c))
    /\ UNCHANGED <<server, backendOk, pong, address>>

\* YubiSigner::connect / AwsSigner::new returns Ok: insert, drop the
\* guard, return to handle_request, which dispatches.
ResolveOk(r, c) ==
    LET s == Signer(task[r].key, r)
    IN  /\ NoneDone
        /\ task[r].pc = "resolving"
        /\ Body(r, c)
        /\ backendOk
        /\ signers' = Insert(signers, task[r].key, s)
        /\ task' = UpdateRelease(r,
              Dispatched([task[r] EXCEPT !.resolve = "ok"], RequestOf(r, c), s))
        /\ holder' = Granted(queue)
        /\ queue' = Rest(queue)
        /\ resolveOks' = Bump(resolveOks, task[r].key)
        /\ returned' = [returned EXCEPT ![task[r].key] = @ \cup {s}]
        /\ UNCHANGED <<server, backendOk, pong, address, resolveCalls>>

\* The resolve returns Err: `?` leaves get_signer (the guard is dropped)
\* and handle_request; the error becomes an AppError.
ResolveErrKeepsLock(r, c) ==
    /\ NoneDone
    /\ task[r].pc = "resolving"
    /\ Body(r, c)
    /\ ~backendOk
    /\ task' = Update(r, [task[r] EXCEPT
          !.pc = "done", !.payload = RequestOf(r, c), !.resolve = "failed",
          !.reply = {AppErrorResponse(<<"resolve failed">>)}])
    /\ UNCHANGED <<server, signers, holder, queue, backendOk, pong, address,
                   resolveCalls, resolveOks, returned>>

ResolveErrRetry(r, c) ==
    /\ NoneDone
    /\ task[r].pc = "resolving"
    /\ Body(r, c)
    /\ ~backendOk
    /\ resolveCalls' = Bump(resolveCalls, task[r].key)
    /\ UNCHANGED <<server, signers, holder, queue, backendOk, task, pong, address,
                   resolveOks, returned>>

ResolveErr(r, c) ==
    /\ NoneDone
    /\ task[r].pc = "resolving"
    /\ Body(r, c)
    /\ ~backendOk
    /\ task' = UpdateRelease(r, [task[r] EXCEPT
          !.pc = "done", !.payload = RequestOf(r, c), !.resolve = "failed",
          !.reply = {AppErrorResponse(<<"resolve failed">>)}])
    /\ holder' = Granted(queue)
    /\ queue' = Rest(queue)
    /\ UNCHANGED <<server, signers, backendOk, pong, address,
                   resolveCalls, resolveOks, returned>>

\* build(&signer).await returns; a failed signature evicts the key.
SignDoneEvicts(r) ==
    LET t == task[r]
        s == CHOOSE x \in t.eth_signer : TRUE
        params == CHOOSE ps \in t.payload.params : TRUE
    IN  /\ NoneDone
        /\ t.pc = "signing"
        /\ task' = Update(r, [t EXCEPT !.pc = "done", !.reply =
              IF backendOk
                THEN {JsonRpcReplyResult(t.payload.id, rlp_hex(s, params[1]))}
              ELSE {AppErrorResponse(<<"signing failed">>)}])
        /\ signers' = IF backendOk THEN signers
                       ELSE [k \in DOMAIN signers \ {t.key} |-> signers[k]]
        /\ UNCHANGED <<server, holder, queue, backendOk,
                       pong, address, resolveCalls, resolveOks, returned>>

\* build(&signer).await returns: the signed envelope is encoded, or the
\* error becomes an AppError.
SignDone(r) ==
    LET t == task[r]
        s == CHOOSE x \in t.eth_signer : TRUE
        params == CHOOSE ps \in t.payload.params : TRUE
    IN  /\ NoneDone
        /\ t.pc = "signing"
        /\ task' = Update(r, [t EXCEPT !.pc = "done", !.reply =
              IF backendOk
                THEN {JsonRpcReplyResult(t.payload.id, rlp_hex(s, params[1]))}
              ELSE {AppErrorResponse(<<"signing failed">>)}])
        /\ UNCHANGED <<server, signers, holder, queue, backendOk,
                       pong, address, resolveCalls, resolveOks, returned>>

\* TimeoutLayer fires: the handler's future is dropped where it is
\* suspended.  A task of a YubiHSM server is suspended in lock().await
\* only (connect and the local signer are plain calls); a task of the
\* AWS KMS server also in AwsSigner::new(..).await and in build(..).await.
CanTimeoutAnywhere(srv, p) ==
    p \in {"waiting", "granted", "resolving", "signing"}

CanTimeout(srv, p) ==
    \/ p \in {"waiting", "granted"}
    \/ srv = "aws_kms" /\ p \in {"resolving", "signing"}

Timeout(r) ==
    LET t == [task[r] EXCEPT
                !.pc = "done", !.reply = {TimeoutResponse},
                !.resolve = IF @ = "pending" THEN "aborted" ELSE @]
    IN  /\ NoneDone
        /\ CanTimeout(server, task[r].pc)
        /\ IF task[r].pc \in {"granted", "resolving"}
             THEN /\ task' = UpdateRelease(r, t)
                  /\ holder' = Granted(queue)
                  /\ queue' = Rest(queue)
           ELSE /\ task' = Update(r, t)
                /\ holder' = holder
                /\ queue' = Without(queue, r)
        /\ UNCHANGED <<server, signers, backendOk, pong, address,
                       resolveCalls, resolveOks, returned>>

\* The response is written to the connection and the task ends.
Respond(r) ==
    /\ task[r].pc = "done"
    /\ task' = Update(r, [NoTask EXCEPT !.pc = "closed"])
    /\ UNCHANGED <<server, signers, holder, queue, backendOk, pong, address,
                   resolveCalls, resolveOks, returned>>

\* mock.rs: MOCK_KEYS, by key id
MOCK_KEYS == <<1, 2>>

\* The cache after the first n wallets of ks were inserted.
RECURSIVE InsertWallets(_, _, _)
InsertWallets(m, ks, n) ==
    IF n = 0 THEN m
    ELSE Insert(InsertWallets(m, ks, n - 1), ks[n], Signer(ks[n], FromKey))

\* add_mock_wallets(state, keys): under the lock, insert a wallet made by
\* YubiSigner::from_key for every key; the first from_key that fails ends
\* the call (n wallets were inserted before it).  It runs when the lock is
\* free, or ahead of a waiter that was handed the lock and has not run.
add_mock_wallets(keys, n) ==
    LET keys_to_use == IF keys = <<>> THEN MOCK_KEYS ELSE keys
    IN  /\ NoneDone
        /\ server = "yubihsm"
        /\ \A h \in holder : task[h].pc = "granted"
        /\ n \in 0..Len(keys_to_use)
        /\ n = Len(keys_to_use) \/ ~backendOk
        /\ signers' = InsertWallets(signers, keys_to_use, n)
        /\ signers' # signers
        /\ UNCHANGED <<server, holder, queue, backendOk, task, pong, address,
                       resolveCalls, resolveOks, returned>>

\* The backend goes away or comes back (device unplugged, credentials
\* revoked, key deleted or created, network down).
BackendChange ==
    /\ NoneDone
    /\ backendOk' = ~backendOk
    /\ UNCHANGED <<server, signers, holder, queue, task, pong, address,
                   resolveCalls, resolveOks, returned>>

\* handle_ping
PingChecksBackend == IF backendOk THEN "pong" ELSE "unavailable"

handle_ping == "pong"

\* GET /ping: routed by the AWS KMS server only.  pong records the answer
\* and the position of the lock holder at that moment.
Ping ==
    /\ NoneDone
    /\ server = "aws_kms"
    /\ pong' = <<handle_ping, {task[h].pc : h \in holder}>>
    /\ UNCHANGED <<server, signers, holder, queue, backendOk, task, address,
                   resolveCalls, resolveOks, returned>>

\* The answer of GET /ping is written to the connection.
PingRespond ==
    /\ pong # <<>>
    /\ pong' = <<>>
    /\ UNCHANGED <<server, signers, holder, queue, backendOk, task, address,
                   resolveCalls, resolveOks, returned>>

\* Json(AddressResponse { address }): 200 and {"address": ..}
AddressResponse(a) == Response(200, {}, {<<"address", a>>}, {}, {})

\* Err(StatusCode::INTERNAL_SERVER_ERROR): 500 with an empty body
StatusResponse == Response(500, {}, {}, {}, {})

\* get_address: connect to key k (YubiSigner::connect, AwsSigner::new) and
\* read its address; {} is Err, {a} is Ok(a).  The cache is not consulted.
GetAddressCached(k) ==
    IF k \in DOMAIN signers \/ backendOk THEN {k} ELSE {}

get_address(k) == IF backendOk THEN {k} ELSE {}

\* handle_address_request
handle_address_request(k) ==
    IF get_address(k) = {} THEN StatusResponse
    ELSE AddressResponse(CHOOSE a \in get_address(k) : TRUE)

\* GET /key/k/address (routed by the servers of signers/).  The handler
\* extracts a JSON-RPC request from the body before it runs: without one
\* the AppJson rejection answers.  On the AWS KMS server the request can
\* time out in AwsSigner::new(..).await.
AddressRequestCaching(k, how) ==
    /\ NoneDone
    /\ server # "main"
    /\ how = "timeout" => server = "aws_kms"
    /\ address' = CASE how = "nobody" ->
                          <<{}, AppErrorResponse(<<"no body">>)>>
                     [] how = "timeout" -> <<{k}, TimeoutResponse>>
                     [] OTHER -> <<{k}, handle_address_request(k)>>
    /\ signers' = IF how = "served" /\ backendOk
                    THEN Insert(signers, k, Signer(k, FromKey))
                  ELSE signers
    /\ UNCHANGED <<server, holder, queue, backendOk, task, pong,
                   resolveCalls, resolveOks, returned>>

AddressRequest(k, how) ==
    /\ NoneDone
    /\ server # "main"
    /\ how = "timeout" => server = "aws_kms"
    /\ address' = CASE how = "nobody" ->
                          <<{}, AppErrorResponse(<<"no body">>)>>
                     [] how = "timeout" -> <<{k}, TimeoutResponse>>
                     [] OTHER -> <<{k}, handle_address_request(k)>>
    /\ UNCHANGED <<server, signers, holder, queue, backendOk, task, pong,
                   resolveCalls, resolveOks, returned>>

\* The answer of GET /key/k/address is written to the connection.
AddressRespond ==
    /\ address # <<>>
    /\ address' = <<>>
    /\ UNCHANGED <<server, signers, holder, queue, backendOk, task, pong,
                   resolveCalls, resolveOks, returned>>

Next ==
    \/ \E r \in Reqs, k \in Keys \cup {NoSegment, NotU16}, c \in Calls :
           HandleRequest(r, k, c)
    \/ \E r \in Reqs, c \in Calls : LockAcquired(r, c)
    \/ \E r \in Reqs, c \in Calls : ResolveOk(r, c)
    \/ \E r \in Reqs, c \in Calls : ResolveErr(r, c)
    \/ \E r \in Reqs : SignDone(r)
    \/ \E r \in Reqs : Timeout(r)
    \/ \E r \in Reqs : Respond(r)
    \/ \E keys \in {<<>>} \cup {<<k>> : k \in Keys}, n \in 0..Len(MOCK_KEYS) :
           add_mock_wallets(keys, n)
    \/ BackendChange
    \/ Ping
    \/ PingRespond
    \/ \E k \in Keys, how \in {"nobody", "timeout", "served"} :
           AddressRequest(k, how)
    \/ AddressRespond

Spec == Init /\ [][Next]_vars

\* The same system with what the scheduler and the backend guarantee: a
\* task that can run is run (tokio hands the lock to the first waiter and
\* wakes it), a resolve call and a signature request return, and a ready
\* response is written.  Requests, pings, address lookups, timeouts and
\* changes of the backend are left to the environment.
LiveSpec ==
    /\ Spec
    /\ SF_vars(\E r \in Reqs, c \in Calls : LockAcquired(r, c))
    /\ SF_vars(\E r \in Reqs, c \in Calls : ResolveOk(r, c) \/ ResolveErr(r, c))
    /\ SF_vars(\E r \in Reqs : SignDone(r))
    /\ WF_vars(\E r \in Reqs : Respond(r))
    /\ WF_vars(PingRespond)
    /\ WF_vars(AddressRespond)

\* ------------------------------------------------------------- observers
\* Resolve calls for key k that are in flight.
Pending(k) ==
    Cardinality({r \in Reqs : task[r].pc = "resolving" /\ task[r].key = k})

\* The entry of key k was written by add_mock_wallets.
MockWrote(k) == k \in DOMAIN signers /\ signers[k].by = FromKey

\* Request r passed the extractors, its handler ran to its end, and its
\* response is ready.
Handled(r) ==
    /\ task[r].pc = "done"
    /\ task[r].key \in Keys
    /\ task[r].reply # {TimeoutResponse}
    /\ ~ExtractorRejects(server, task[r].payload)

\* This step is task r running get_signer from the lock to its return or
\* to the backend call.
Looked(r) ==
    /\ task[r].pc \in {"idle", "granted"}
    /\ task'[r].pc \in {"resolving", "signing", "done"}
    /\ task'[r].key \in Keys
    /\ task'[r].reply \cap
          {TimeoutResponse, AppErrorResponse(<<"missing field params">>)} = {}

\* ------------------------------------------------------------- C1
\* C1: single-flight per key.  For every key whose entry no mock wallet
\* wrote and none of whose resolves failed or was aborted, get_signer has
\* issued at most one backend resolve, however many requests for the key
\* overlap; and as soon as any of them has a signer, exactly one resolve
\* was issued and every signer returned for the key is the one the cache
\* holds.
SingleFlightPerKey ==
    \A k \in Keys :
        (resolveCalls[k] = resolveOks[k] + Pending(k) /\ ~MockWrote(k))
        => /\ resolveCalls[k] <= 1
           /\ returned[k] # {}
                => /\ resolveCalls[k] = 1
                   /\ k \in DOMAIN signers
                   /\ returned[k] = {signers[k]}

\* Two overlapping first-time requests for one key: one resolved it, the
\* other waited for the lock and got the same signer from the cache.
SingleFlightWitness ==
    \E r1, r2 \in Reqs :
        /\ r1 # r2
        /\ task[r1].key = task[r2].key
        /\ task[r1].resolve = "ok"
        /\ task[r2].waited
        /\ task[r2].resolve = "none"
        /\ task[r2].eth_signer # {}
        /\ task[r2].eth_signer = task[r1].eth_signer
        /\ resolveCalls[task[r1].key] = 1

\* ------------------------------------------------------------- C2
\* C2: cache entries are permanent.  No step removes an entry of the
\* cache or replaces it with a different signer.
CacheEntriesPermanent ==
    [][\A k \in DOMAIN signers :
          k \in DOMAIN signers' /\ signers'[k] = signers[k]]_vars

\* ------------------------------------------------------------- C3
\* C3: at most one successful backend resolve per key.  No key ever has
\* more than one successful resolve; and once get_signer has returned a
\* signer for key k, no step issues or completes a resolve for k, the key
\* stays cached, and every task that gets a signer for k gets the stored
\* one.
ResolveOncePerKey ==
    /\ [](\A k \in Keys : resolveOks[k] <= 1)
    /\ [][\A k \in Keys : returned[k] # {} =>
            /\ resolveCalls'[k] = resolveCalls[k]
            /\ resolveOks'[k] = resolveOks[k]
            /\ k \in DOMAIN signers /\ k \in DOMAIN signers'
            /\ \A r \in Reqs :
                  (Looked(r) /\ task'[r].key = k)
                  => /\ task'[r].resolve = "none"
                     /\ task'[r].eth_signer = {signers[k]}
                     /\ signers' = signers]_vars

\* A request served from the entry that an earlier request's resolve made.
ResolveOnceWitness ==
    \E r \in Reqs :
        /\ task[r].key \in DOMAIN signers
        /\ task[r].eth_signer = {signers[task[r].key]}
        /\ task[r].resolve = "none"
        /\ signers[task[r].key].by \in Reqs \ {r}
        /\ resolveOks[task[r].key] = 1

\* ------------------------------------------------------------- C4
\* C4: every handled request is answered with a body whose id is the id
\* of the request, whatever the outcome.
ReplyEchoesId ==
    \A r \in Reqs :
        Handled(r) => \A rsp \in task[r].reply : rsp.id = {task[r].payload.id}

\* ------------------------------------------------------------- C5
\* C5: the dispatcher is total.  Every handled request that did not get
\* a result is answered with a JSON-RPC reply that carries an error
\* object.
FailuresAreErrorObjects ==
    \A r \in Reqs :
        Handled(r) =>
            \A rsp \in task[r].reply : rsp.result = {} => rsp.error # {}

\* ------------------------------------------------------------- C6
\* C6: empty or absent params.  Every eth_signTransaction call that
\* reached its handler (get_signer returned a signer) with params absent
\* or the empty array is answered with an InvalidParams error object whose
\* message is "params is empty", and no signature was requested for it.
EmptyParamsInvalidParams ==
    \A r \in Reqs :
        (/\ Handled(r)
         /\ task[r].eth_signer # {}
         /\ task[r].payload.method = "eth_signTransaction"
         /\ task[r].payload.params \in {{}, {<<>>}})
        => /\ task[r].signs = 0
           /\ \A rsp \in task[r].reply :
                 rsp.error = {[code |-> "InvalidParams",
                               message |-> <<"params is empty">>]}

\* ------------------------------------------------------------- C7
\* C7 as claimed: a handled call of a method that is not implemented
\* locally is answered with the reply of the upstream node to that call,
\* unchanged.
ForeignMethodForwarded ==
    \A r \in Reqs :
        LET p == task[r].payload
            upstream == JsonRpcReplyResult(p.id, <<"upstream", p.method>>)
        IN  (Handled(r) /\ p.method \notin {"eth_signTransaction",
                                           "health_status"})
            => task[r].reply = {upstream}

\* C7 as amended: routing is by method name, after get_signer has
\* returned a signer.  A call of a method the server does not implement
\* is answered with the error "method not supported" naming the method,
\* and no signature is requested; a call of eth_signTransaction is never
\* answered so.
ForeignMethodRejected ==
    \A r \in Reqs :
        LET p == task[r].payload
            local == IF server = "main" THEN {"eth_signTransaction"}
                     ELSE {"eth_signTransaction", "health_status"}
            unsupported == AppErrorResponse(<<"method not supported", p.method>>)
        IN  (task[r].pc \in {"signing", "done"} /\ task[r].eth_signer # {})
            => /\ p.method \notin local
                    => task[r].reply = {unsupported} /\ task[r].signs = 0
               /\ p.method \in local => unsupported \notin task[r].reply

\* A call of a foreign method reached the dispatcher and was rejected.
ForeignMethodWitness ==
    \E r \in Reqs :
        /\ task[r].pc = "done"
        /\ task[r].eth_signer # {}
        /\ task[r].payload.method = "eth_chainId"
        /\ task[r].reply =
              {AppErrorResponse(<<"method not supported", "eth_chainId">>)}

HealthWithoutBackend ==
    \A r \in Reqs :
        (Handled(r) /\ task[r].payload.method = "health_status")
        => /\ task[r].resolve = "none"
           /\ task[r].reply = {JsonRpcReplyResult(task[r].payload.id,
                                                  <<"CARGO_PKG_VERSION">>)}

\* C9 as amended: on the servers that implement it (yubihsm, aws_kms),
\* health_status is dispatched after get_signer for the key of the path.
\* It is answered with the package version and the request id exactly
\* when get_signer returned a signer: from the cache without a resolve,
\* or after a successful resolve of a key that was not cached; when that
\* resolve fails, the answer is the resolve error.
HealthAfterGetSigner ==
    \A r \in Reqs :
        (/\ server # "main"
         /\ task[r].pc = "done"
         /\ task[r].reply # {TimeoutResponse}
         /\ task[r].payload.method = "health_status")
        => /\ task[r].signs = 0
           /\ task[r].resolve \in {"none", "ok", "failed"}
           /\ task[r].resolve \in {"none", "ok"}
                => /\ task[r].eth_signer # {}
                   /\ task[r].reply =
                         {JsonRpcReplyResult(task[r].payload.id,
                                             <<"CARGO_PKG_VERSION">>)}
           /\ task[r].resolve = "failed"
                => /\ task[r].eth_signer = {}
                   /\ task[r].reply = {AppErrorResponse(<<"resolve failed">>)}

\* health_status answered from a cached key while the backend is down.
HealthWitness ==
    \E r \in Reqs :
        /\ ~backendOk
        /\ task[r].pc = "done"
        /\ task[r].payload.method = "health_status"
        /\ task[r].resolve = "none"
        /\ task[r].reply = {JsonRpcReplyResult(r, <<"CARGO_PKG_VERSION">>)}

\* ------------------------------------------------------------- C10
\* C10: GET /ping (routed by the AWS KMS server) answers "pong" in every
\* state, and the step that answers it changes neither the lock, nor the
\* queue of waiters, nor the cache, nor any task, nor the backend, nor the
\* count of resolve calls.
PingIndependent ==
    /\ [](pong # <<>> => pong[1] = "pong")
    /\ [][(pong = <<>> /\ pong' # <<>>)
            => UNCHANGED <<signers, holder, queue, backendOk, task,
                           resolveCalls, resolveOks, returned>>]_vars

\* Ping answered while a request holds the lock inside a resolve and the
\* backend does not answer.
PingWitness == pong = <<"pong", {"resolving"}>> /\ ~backendOk

\* ------------------------------------------------------------- C11
\* C11: global serialization.  At most one task is inside the critical
\* section of get_signer (handed the lock, or resolving) and it is the
\* lock holder; at most one get_signer resolve is in flight over all
\* keys; and while a task resolves, no other task reads the cache or
\* obtains a signer, whatever key it asks for.
GlobalSerialization ==
    /\ [](/\ Cardinality(holder) <= 1
          /\ \A r \in Reqs :
                task[r].pc \in {"granted", "resolving"} => holder = {r}
          /\ Cardinality({r \in Reqs : task[r].pc = "resolving"}) <= 1)
    /\ [][\A a, b \in Reqs :
            (a # b /\ task[a].pc = "resolving")
            => /\ ~Looked(b)
               /\ task[b].eth_signer = {} => task'[b].eth_signer = {}
               /\ task[b].pc \in {"idle", "waiting"}
                    => task'[b].pc \in {task[b].pc, "waiting", "granted",
                                        "done"}]_vars

\* Request a resolves one key while request b, which asks for another
\* key that is already cached, waits for the lock.
GlobalSerializationWitness ==
    \E a, b \in Reqs :
        /\ task[a].pc = "resolving"
        /\ task[b].pc = "waiting"
        /\ task[b].key # task[a].key
        /\ task[b].key \in DOMAIN signers

\* ------------------------------------------------------------- C12
\* C12: no automatic retries.  A task requests at most one signature; a
\* resolve call is issued only by a task that has issued none before; a
\* resolve that ended keeps its outcome; a failed resolve ends the task
\* with the resolve error in the same step; and a task leaves the
\* signature request only to its response, with no further request.
NoRetries ==
    /\ [](\A r \in Reqs : task[r].signs <= 1)
    /\ [][/\ \A k \in Keys :
               resolveCalls'[k] # resolveCalls[k]
               => /\ resolveCalls'[k] = resolveCalls[k] + 1
                  /\ \E r \in Reqs : /\ task[r].resolve = "none"
                                     /\ task'[r].resolve = "pending"
                                     /\ task'[r].key = k
          /\ \A r \in Reqs :
               /\ (task[r].resolve # "none" /\ task'[r].pc # "closed")
                  => task'[r].resolve \in
                        (IF task[r].resolve = "pending"
                           THEN {"pending", "ok", "failed", "aborted"}
                         ELSE {task[r].resolve})
               /\ (task[r].resolve = "pending" /\ task'[r].resolve = "failed")
                  => /\ task'[r].pc = "done"
                     /\ task'[r].reply = {AppErrorResponse(<<"resolve failed">>)}
               /\ (task[r].pc = "signing" /\ task'[r].pc # "signing")
                  => /\ task'[r].pc = "done"
                     /\ task'[r].signs = task[r].signs
                     /\ task'[r].resolve = task[r].resolve]_vars

\* A request that resolved its key once, asked for one signature, and is
\* answered with the signing error.
NoRetriesWitness ==
    \E r \in Reqs :
        /\ task[r].pc = "done"
        /\ task[r].resolve = "ok"
        /\ task[r].signs = 1
        /\ resolveCalls[task[r].key] = 1
        /\ task[r].reply = {AppErrorResponse(<<"signing failed">>)}

\* ------------------------------------------------------------- C13
\* C13: no invalidation or revalidation.  A get_signer that finds its key
\* in the cache returns the stored signer without a resolve, whatever the
\* state of the backend; a task served from the cache is never answered
\* with the resolve error.
NoRevalidation ==
    /\ [](\A r \in Reqs :
            (task[r].eth_signer # {} /\ task[r].resolve = "none")
            => AppErrorResponse(<<"resolve failed">>) \notin task[r].reply)
    /\ [][\A r \in Reqs :
            (Looked(r) /\ task'[r].key \in DOMAIN signers)
            => /\ task'[r].resolve = "none"
               /\ task'[r].eth_signer = {signers[task'[r].key]}
               /\ resolveCalls' = resolveCalls
               /\ signers' = signers]_vars

\* The backend is down: a request got its signer from the cache all the
\* same, and the failure surfaced at the signature request.
NoRevalidationWitness ==
    \E r \in Reqs :
        /\ ~backendOk
        /\ task[r].pc = "done"
        /\ task[r].resolve = "none"
        /\ task[r].key \in DOMAIN signers
        /\ task[r].eth_signer = {signers[task[r].key]}
        /\ task[r].reply = {AppErrorResponse(<<"signing failed">>)}

\* ------------------------------------------------------------- C14
\* C14 as claimed: the request timeout never aborts a resolve that is in
\* flight.
ResolveNeverAborted == \A r \in Reqs : task[r].resolve # "aborted"

\* C14 as amended: on the YubiHSM servers a resolve, once issued, ends
\* with Ok and the signer stored or with Err; the timeout cannot fire
\* inside it.  On the AWS KMS server the timeout can fire while the
\* resolve is awaited: the resolve is abandoned, the lock is released,
\* nothing is stored and the answer is 408.
TimeoutAbortsAwsResolveOnly ==
    /\ [](\A r \in Reqs :
            task[r].resolve = "aborted"
            => /\ server = "aws_kms"
               /\ task[r].pc = "done"
               /\ task[r].reply = {TimeoutResponse}
               /\ task[r].key \notin DOMAIN signers)
    /\ [][\A r \in Reqs :
            task[r].pc = "resolving"
            => /\ server # "aws_kms"
                    => task'[r].resolve \in {"pending", "ok", "failed"}
               /\ task'[r].resolve = "ok"
                    => /\ task[r].key \in DOMAIN signers'
                       /\ task'[r].eth_signer = {signers'[task[r].key]}
               /\ task'[r].resolve = "aborted"
                    => signers' = signers /\ r \notin holder']_vars

\* A request of the AWS KMS server timed out inside its resolve.
TimeoutAbortsWitness ==
    \E r \in Reqs :
        /\ server = "aws_kms"
        /\ task[r].resolve = "aborted"
        /\ task[r].reply = {TimeoutResponse}
        /\ holder = {}

AddressBypassesCache ==
    /\ [](address # <<>> =>
            \/ address = <<{}, AppErrorResponse(<<"no body">>)>>
            \/ \E k \in address[1] :
                  \/ address[2] = TimeoutResponse /\ server = "aws_kms"
                  \/ address[2] = (IF backendOk THEN AddressResponse(k)
                                   ELSE StatusResponse))
    /\ [][(address = <<>> /\ address' # <<>>)
            => UNCHANGED <<signers, holder, queue, backendOk, task,
                           resolveCalls, resolveOks, returned>>]_vars

\* The address of a key is returned while a request holds the lock inside
\* its resolve of the same key, which is not in the cache.
AddressWitness ==
    \E r \in Reqs :
        /\ task[r].pc = "resolving"
        /\ task[r].key \notin DOMAIN signers
        /\ address = <<{task[r].key}, AddressResponse(task[r].key)>>

\* ------------------------------------------------------------- C18
\* C18: a signature is requested only for a validated signing call.
\* Every task that has requested a signature carries the method
\* eth_signTransaction and params whose first element parses as a
\* transaction request; a task is suspended in the signature request
\* only if it has requested one.
SignOnlyValidated ==
    \A r \in Reqs :
        /\ task[r].pc = "signing" => task[r].signs = 1
        /\ task[r].signs > 0
             => /\ task[r].payload.method = "eth_signTransaction"
                /\ task[r].payload.params # {}
                /\ \A ps \in task[r].payload.params :
                      ps # <<>> /\ from_value(ps[1])
                /\ task[r].eth_signer # {}

\* One request was signed, and another one, whose first param is no
\* transaction request, was answered without a signature request.
SignOnlyValidatedWitness ==
    \E a, b \in Reqs :
        /\ task[a].signs = 1
        /\ task[a].pc = "signing"
        /\ task[b].pc = "done"
        /\ task[b].payload.params = {<<"junk">>}
        /\ task[b].eth_signer # {}
        /\ task[b].signs = 0

\* ------------------------------------------------------------- C19
\* C19: the signer used for key k is the one made for k.  Every cache
\* entry under k is a signer bound to k, every signer get_signer has
\* returned for k and every signer a task for k holds is bound to k; and
\* an entry made by a resolve appears under the key of the request that
\* resolved it.
SignerBoundToKey ==
    /\ [](/\ \A k \in DOMAIN signers : k \in Keys /\ signers[k].key = k
          /\ \A k \in Keys : \A s \in returned[k] : s.key = k
          /\ \A r \in Reqs : \A s \in task[r].eth_signer :
                s.key = task[r].key)
    /\ [][\A k \in DOMAIN signers' :
            ((k \notin DOMAIN signers \/ signers'[k] # signers[k])
             /\ signers'[k].by \in Reqs)
            => /\ task[signers'[k].by].pc = "resolving"
               /\ task[signers'[k].by].key = k]_vars

\* Two requests for different keys hold each the signer of its own key.
SignerBoundWitness ==
    \E a, b \in Reqs :
        /\ task[a].key # task[b].key
        /\ task[a].eth_signer # {} /\ task[b].eth_signer # {}
        /\ task[a].resolve = "none" /\ task[b].resolve = "ok"
        /\ DOMAIN signers = Keys

\* ------------------------------------------------------------- C20
\* C20 as claimed: every cached key was resolved successfully by a
\* POST /key/k request.
CachedOnlyByRequest ==
    \A k \in DOMAIN signers : resolveOks[k] >= 1

\* C20 as amended: the cache is empty at the start, and an entry is added
\* only by the successful resolve of a POST /key/k request for that key
\* or by add_mock_wallets (YubiHSM server); no other step (ping, address
\* lookup, a request for another key, timeout, failure) adds one.
CachedOnDemand ==
    /\ [](\A k \in DOMAIN signers : resolveOks[k] >= 1 \/ MockWrote(k))
    /\ [][\A k \in Keys :
            (k \notin DOMAIN signers /\ k \in DOMAIN signers')
            => \/ \E r \in Reqs : /\ task[r].key = k
                                  /\ task[r].resolve = "pending"
                                  /\ task'[r].resolve = "ok"
                                  /\ signers'[k] = Signer(k, r)
               \/ /\ server = "yubihsm"
                  /\ signers'[k] = Signer(k, FromKey)
                  /\ UNCHANGED <<task, pong, address>>
                  /\ address = <<>>]_vars

\* One key was cached by a request's resolve; the address of another key
\* was looked up and that key is not cached.
CachedOnDemandWitness ==
    \E k, j \in Keys :
        /\ k \in DOMAIN signers
        /\ signers[k].by \in Reqs
        /\ resolveOks[k] = 1
        /\ j \notin DOMAIN signers
        /\ address = <<{j}, AddressResponse(j)>>

\* ------------------------------------------------------------- C21
\* C21: resolve precedes dispatch.  A request whose handler runs
\* get_signer on a key that is not cached issues a backend resolve before
\* its body is looked at; a request whose resolve failed is answered with
\* the resolve error whatever its method and params; and a request whose
\* resolve succeeded has its key in the cache, also when the request is
\* then answered with an error.
ResolvePrecedesDispatch ==
    /\ [](\A r \in Reqs :
            /\ task[r].pc = "resolving" => task[r].payload = NoRequest
            /\ task[r].resolve = "failed"
                 => /\ task[r].reply = {AppErrorResponse(<<"resolve failed">>)}
                    /\ task[r].signs = 0
            /\ task[r].resolve = "ok" => task[r].key \in DOMAIN signers)
    /\ [][\A r \in Reqs :
            (Looked(r) /\ task'[r].key \notin DOMAIN signers)
            => /\ task'[r].pc = "resolving"
               /\ task'[r].payload = NoRequest
               /\ resolveCalls'[task'[r].key] > resolveCalls[task'[r].key]]_vars

\* A request with an unsupported method resolved its key, the key is
\* cached, and the request is answered with the method error.
ResolvePrecedesWitness ==
    \E r \in Reqs :
        /\ task[r].pc = "done"
        /\ task[r].payload.method = "eth_chainId"
        /\ task[r].resolve = "ok"
        /\ task[r].key \in DOMAIN signers
        /\ task[r].reply =
              {AppErrorResponse(<<"method not supported", "eth_chainId">>)}

\* ------------------------------------------------------------- C22
\* C22 as claimed: every request that waits for the lock acquires it in
\* the end.
WaiterAlwaysAcquires ==
    \A r \in Reqs : (task[r].pc = "waiting") ~> (task[r].pc = "granted")

\* C22 as amended: the lock is held exactly by the task that is inside
\* get_signer after lock().await (never by a task that is signing, done
\* or gone), the waiters are exactly the queued tasks, and the lock is
\* free when nobody owns it.  Under LiveSpec every request that waits for
\* the lock acquires it in the end or is ended by the request timeout,
\* and every request in flight gets its response.
LockReleasedAndLive ==
    /\ [](/\ \A r \in Reqs :
                /\ r \in holder <=> task[r].pc \in {"granted", "resolving"}
                /\ task[r].pc = "waiting"
                     <=> \E i \in 1..Len(queue) : queue[i] = r
          /\ holder = {} => queue = <<>>)
    /\ \A r \in Reqs :
          /\ (task[r].pc = "waiting")
                ~> (task[r].pc = "granted" \/ task[r].reply = {TimeoutResponse})
          /\ (task[r].pc \in {"waiting", "granted", "resolving", "signing"})
                ~> (task[r].pc = "done")

\* A request that had to wait for the lock is answered with its signed
\* transaction, and the lock is free.
LockLiveWitness ==
    \E r \in Reqs :
        /\ task[r].waited
        /\ task[r].pc = "done"
        /\ \E rsp \in task[r].reply : rsp.status = 200 /\ rsp.result # {}
        /\ task[r].signs = 1
        /\ holder = {}

\* ------------------------------------------------------------- C23
\* C23: when the backend fails the signature request of an
\* eth_signTransaction request, the request is answered with the signing
\* error and no result, in the same step the cache is left as it was, and
\* the request made exactly one signature request.
SigningFailureLeavesCache ==
    /\ [](\A r \in Reqs :
            task[r].reply = {AppErrorResponse(<<"signing failed">>)}
            => /\ task[r].payload.method = "eth_signTransaction"
               /\ task[r].signs = 1
               /\ task[r].key \in DOMAIN signers
               /\ \A rsp \in task[r].reply :
                     rsp.status = 500 /\ rsp.result = {})
    /\ [][\A r \in Reqs :
            (task[r].pc = "signing" /\ task'[r].pc = "done" /\ ~backendOk
                /\ task'[r].reply # {TimeoutResponse})
            => /\ task'[r].reply = {AppErrorResponse(<<"signing failed">>)}
               /\ signers' = signers
               /\ task'[r].signs = task[r].signs
               /\ resolveCalls' = resolveCalls]_vars

\* A request whose key was cached by an earlier request is answered with
\* the signing error, and the entry it signed with is still the cache's.
SigningFailureWitness ==
    \E r \in Reqs :
        /\ task[r].pc = "done"
        /\ task[r].reply = {AppErrorResponse(<<"signing failed">>)}
        /\ task[r].signs = 1
        /\ task[r].resolve = "none"
        /\ resolveOks[task[r].key] = 1
        /\ task[r].key \in DOMAIN signers
        /\ signers[task[r].key] \in task[r].eth_signer

\* ------------------------------------------------------------- C24
\* The replies the YubiHSM handle_request gives a task with the payload,
\* the resolve outcome and the signer of t: the resolve error, or what the
\* dispatcher answers, or either outcome of the signature request.
YubiHsmReplies(t) ==
    IF t.resolve = "failed" THEN {AppErrorResponse(<<"resolve failed">>)}
    ELSE IF t.eth_signer = {} THEN {}
    ELSE LET s == CHOOSE x \in t.eth_signer : TRUE
             d == handle_eth_sign_jsonrpc("yubihsm", t.payload, s)
         IN  IF d.pc = "done" THEN d.reply
             ELSE LET params == CHOOSE ps \in t.payload.params : TRUE
                  IN  {JsonRpcReplyResult(t.payload.id, rlp_hex(s, params[1])),
                       AppErrorResponse(<<"signing failed">>)}

\* The answered request r went through the cache and to its reply as the
\* YubiHSM handler takes it: a hit returns a cached signer, a miss
\* resolves, a successful resolve is stored, a failed one is not and is
\* the reply, and the reply is a YubiHSM reply; the request timeout ends
\* the request only while it waits for the lock.  With inAwait, the
\* timeout also ends it inside the resolve (nothing stored) and inside
\* the signature request.
SameOutcome(r, inAwait) ==
    LET t == task[r]
    IN  /\ t.resolve = "ok"
             => /\ t.key \in DOMAIN signers
                /\ t.eth_signer = {Signer(t.key, r)}
        /\ t.resolve = "failed" => t.eth_signer = {} /\ t.signs = 0
        /\ (t.resolve = "none" /\ t.eth_signer # {})
             => t.key \in DOMAIN signers
        /\ IF t.reply = {TimeoutResponse}
              THEN \/ t.resolve = "none" /\ t.eth_signer = {} /\ t.signs = 0
                   \/ /\ inAwait
                      /\ \/ t.resolve = "aborted" /\ t.eth_signer = {}
                         \/ t.resolve \in {"none", "ok"} /\ t.signs = 1
            ELSE /\ t.resolve \in {"none", "ok", "failed"}
                 /\ t.reply # {}
                 /\ t.reply \subseteq YubiHsmReplies(t)

\* C24 as claimed: on the YubiHSM server and on the AWS KMS server alike,
\* every answered request for a key went through the cache and to its
\* reply as the YubiHSM handler takes it.
SameStateMachine ==
    \A r \in Reqs :
        (server \in {"yubihsm", "aws_kms"} /\ task[r].pc = "done"
            /\ task[r].key \in Keys)
        => SameOutcome(r, FALSE)

\* C24 as amended: the same, except that on the AWS KMS server the
\* request timeout can also end a request inside its resolve, which is
\* then abandoned with nothing stored, and inside its signature request.
SameUpToTimeout ==
    \A r \in Reqs :
        (server \in {"yubihsm", "aws_kms"} /\ task[r].pc = "done"
            /\ task[r].key \in Keys)
        => SameOutcome(r, server = "aws_kms")

\* A request of the AWS KMS server found its key in the cache and is
\* answered with the signed transaction, as the YubiHSM handler answers.
SameUpToTimeoutWitness ==
    \E r \in Reqs :
        /\ server = "aws_kms"
        /\ task[r].pc = "done"
        /\ task[r].resolve = "none"
        /\ task[r].key \in DOMAIN signers
        /\ task[r].eth_signer = {signers[task[r].key]}
        /\ task[r].reply =
              {JsonRpcReplyResult(r, rlp_hex(signers[task[r].key], "tx"))}
        /\ task[r].reply \subseteq YubiHsmReplies(task[r])

=============================================================================
